---- MODULE Spec2Model ----
(***************************************************************************)
(* WebSight: the persistent browser session (src/src/tools/session.ts),    *)
(* its target resolver, and the MCP tool-call handler                      *)
(* (src/src/mcp-server.ts).                                                *)
(*                                                                         *)
(* Strings the resolver inspects are sequences of one-character strings.   *)
(* URLs are atoms with a host and a scheme class.  Handles of browsers,    *)
(* contexts and pages are records [kind, port, idx].                       *)
(***************************************************************************)
EXTENDS Integers, Sequences, FiniteSets, TLC

\* ------------------------------------------------------------------ bounds
\* Longest target string the resolver specification enumerates.
MaxTargetLen == 2
\* Longest action list of a cached snapshot the resolver specification enumerates.
MaxActions == 2
\* DOM mutations (successful button clicks) followed on one loaded page.
MaxDom == 2
\* Analysis passes (analyze calls that reach the snapshot) followed in one run.
MaxPass == 2
\* Debug connections a run may strand before the model stops following more.
MaxConns == 2
\* Largest number of differing pixels pixelmatch reports in the comparison
\* specification.
MaxDiffPixels == 2

NULL == "null"

\* ----------------------------------------------------------------- strings
\* String.prototype.toLowerCase on the characters the model uses.
LowerChar(c) ==
  CASE c = "A" -> "a"
    [] c = "O" -> "o"
    [] c = "G" -> "g"
    [] c = "I" -> "i"
    [] OTHER -> c

Lower(s) == [i \in 1..Len(s) |-> LowerChar(s[i])]

\* String.prototype.includes: needle occurs in hay as a contiguous substring.
Includes(hay, needle) ==
  \E i \in 0..(Len(hay) - Len(needle)) :
    SubSeq(hay, i + 1, i + Len(needle)) = needle

\* String.prototype.startsWith for a one-character prefix.
StartsWithChar(s, c) == Len(s) > 0 /\ s[1] = c

\* The classes \w and '-' of the regular expression /^[\w-]+$/.
WordChars == {"a", "b", "d", "e", "g", "i", "k", "l", "n", "o", "s", "t",
              "A", "G", "I", "O", "0", "1", "_"}

\* An identifier test whose character class lacks the hyphen.
IsIdentifierLikeNoHyphen(s) ==
  /\ Len(s) > 0
  /\ \A i \in 1..Len(s) : s[i] \in WordChars

\* /^[\w-]+$/.test(s)
IsIdentifierLike(s) ==
  /\ Len(s) > 0
  /\ \A i \in 1..Len(s) : s[i] \in WordChars \cup {"-"}

\* `[data-testid="${t}"]`
TestIdSelector(t) ==
  <<"[", "d", "a", "t", "a", "-", "t", "e", "s", "t", "i", "d", "=", "\"">>
    \o t \o <<"\"", "]">>

\* `#${id}`
IdSelector(id) == <<"#">> \o id

\* `role=${role}[name="${name}"]`
RoleSelector(role, name) ==
  <<"r", "o", "l", "e", "=">> \o role \o <<"[", "n", "a", "m", "e", "=", "\"">>
    \o name \o <<"\"", "]">>

\* `text=${t}`
TextSelector(t) == <<"t", "e", "x", "t", "=">> \o t

\* ------------------------------------------------- snapshot actions, locators
\* A raw action carries optional testId and id; <<>> stands for undefined
\* (an empty attribute is falsy in computeLocator as well).
computeLocator(raw) ==
  IF raw.testId # <<>> THEN [type |-> "testId", value |-> TestIdSelector(raw.testId)]
  ELSE IF raw.id # <<>> THEN [type |-> "id", value |-> IdSelector(raw.id)]
  ELSE [type |-> "role", value |-> RoleSelector(raw.role, raw.name)]

\* extractActions' final map: the snapshot action of a raw action.
ToAction(raw) == [name |-> raw.name, role |-> raw.role, locator |-> computeLocator(raw)]

\* The predicate of snapshot.actions.find(...) in findSelector.
ActionMatches(a, target) ==
  \/ Includes(Lower(a.name), Lower(target))
  \/ /\ a.locator.type = "testId"
     /\ Includes(Lower(a.locator.value), Lower(target))

\* A syntax test without the includes('=') clause.
HasSelectorSyntaxNoEquals(target) ==
  \/ StartsWithChar(target, "[")
  \/ StartsWithChar(target, "#")
  \/ StartsWithChar(target, ".")

\* The test of rule 1 (session.ts:318).
HasSelectorSyntax(target) ==
  \/ StartsWithChar(target, "[")
  \/ StartsWithChar(target, "#")
  \/ StartsWithChar(target, ".")
  \/ Includes(target, <<"=">>)

\* findSelector(target, snapshot): snap is [present, actions]; present = FALSE
\* is a null snapshot.
findSelector(target, snap) ==
  IF HasSelectorSyntax(target) THEN target
  ELSE IF snap.present /\ \E i \in 1..Len(snap.actions) : ActionMatches(snap.actions[i], target)
    THEN LET first == CHOOSE i \in 1..Len(snap.actions) :
                        /\ ActionMatches(snap.actions[i], target)
                        /\ \A j \in 1..(i - 1) : ~ActionMatches(snap.actions[j], target)
         IN snap.actions[first].locator.value
  ELSE IF IsIdentifierLike(target) THEN TestIdSelector(target)
  ELSE TextSelector(target)

\* -------------------------------------------------------------------- URLs
UA1 == "http://a/1"
UA2 == "http://a/2"
UB1 == "http://b/1"
Blank == "about:blank"
\* detectActivePage's fallback, also the dev server scanned first (port 5173).
DefaultUrl == "http://localhost:5173/"

\* new URL(u).host
Host(u) ==
  CASE u \in {UA1, UA2} -> "a"
    [] u = UB1 -> "b"
    [] u = DefaultUrl -> "localhost:5173"
    [] OTHER -> ""

\* The pages tryConnectCDP and getActiveTabFromCDP skip: about:, chrome://,
\* edge://, devtools:// (and an empty URL).
IsInternalUrl(u) == u \in {Blank, "chrome://newtab", ""}

CDP_PORTS == <<9222, 9229>>
CdpPortSet == {CDP_PORTS[i] : i \in 1..Len(CDP_PORTS)}

\* --------------------------------------------------------------- the pages
\* The interactive elements of every ordinary page, in document order: a
\* button with a test id, a link with an id, an input and a select with test
\* ids.  An internal page has none.
DomElements ==
  << [kind |-> "button", role |-> <<"b">>, name |-> <<"O", "k">>,
      testId |-> <<"o", "k">>, id |-> <<>>],
     [kind |-> "link", role |-> <<"l">>, name |-> <<"G", "o">>,
      testId |-> <<>>, id |-> <<"l">>],
     [kind |-> "input", role |-> <<"i">>, name |-> <<"I", "n">>,
      testId |-> <<"i", "n">>, id |-> <<>>],
     [kind |-> "select", role |-> <<"s">>, name |-> <<"A", "s">>,
      testId |-> <<"s", "e">>, id |-> <<>>] >>

PageElements(u) == IF IsInternalUrl(u) \/ u = NULL THEN <<>> ELSE DomElements

\* Where the link of a page leads.
LinkTarget(u) == IF u = UA1 THEN UA2 ELSE UA1

\* extractActions on a page showing u.
PageActions(u) == [i \in 1..Len(PageElements(u)) |-> ToAction(PageElements(u)[i])]

\* The element of a page a selector finds (0: none), as the browser resolves
\* the four query forms the resolver produces.
SelectorHits(sel, e) ==
  \/ e.testId # <<>> /\ sel = TestIdSelector(e.testId)
  \/ e.id # <<>> /\ sel = IdSelector(e.id)
  \/ sel = RoleSelector(e.role, e.name)
  \/ /\ Len(sel) > 5
     /\ SubSeq(sel, 1, 5) = TextSelector(<<>>)
     /\ Includes(Lower(e.name), Lower(SubSeq(sel, 6, Len(sel))))

LiveMatch(sel, u) ==
  LET els == PageElements(u)
      hits == {i \in 1..Len(els) : SelectorHits(sel, els[i])}
  IN IF hits = {} THEN 0 ELSE CHOOSE i \in hits : \A j \in hits : i <= j

\* ----------------------------------------------------------------- handles
NoHandle == [kind |-> "null", port |-> 0, idx |-> 0]
LocalHandle == [kind |-> "local", port |-> 0, idx |-> 0]
RemoteHandle(port, idx) == [kind |-> "remote", port |-> port, idx |-> idx]

NoSnapshot == [present |-> FALSE, url |-> NULL, pageUrl |-> NULL]

VARIABLES
  \* SessionState (session.ts:35-42)
  browser, context, page, currentUrl, lastSnapshot, isRemote,
  \* process.env.USE_CDP === '1'
  useCdp,
  \* the user's debugging-enabled browsers: port -> [up, tabs (their URLs)]
  remote,
  \* the locally created page: the URL it shows
  localUrl,
  \* DOM mutations applied to the held page since it was loaded
  pageDom,
  \* resources created or attached and not yet released
  localBrowsers, localContexts, localPages, cdpConns,
  \* a context or page of a remote browser was closed
  remoteClosed,
  \* request filters (page.route) installed on the held page
  pageRoutes,
  \* files in the output directory: the analysis pass each one was written by
  \* (0: absent)
  files,
  \* analysis passes so far
  pass,
  \* the call in flight or last completed, and its position
  call, pc,
  \* the process ended (process.exit)
  exited,
  \* the resolver specification: inputs and result
  rTarget, rSnap, rResult, rDone,
  \* the comparison specification: the two snapshots, the two screenshot
  \* files with pixelmatch's count for them, and the result
  cmpBefore, cmpAfter, cmpImages, cmpResult, cmpDone

sessionVars == <<browser, context, page, currentUrl, lastSnapshot, isRemote>>
envVars == <<useCdp, remote, localUrl, pageDom>>
ghostVars == <<localBrowsers, localContexts, localPages, cdpConns, remoteClosed,
               pageRoutes>>
compareVars == <<cmpBefore, cmpAfter, cmpImages, cmpResult, cmpDone>>
resolverVars == <<rTarget, rSnap, rResult, rDone, compareVars>>
vars == <<sessionVars, envVars, ghostVars, files, pass, call, pc, exited, resolverVars>>

\* The URL the held page is showing.
PageUrl ==
  IF page.kind = "local" THEN localUrl
  ELSE IF page.kind = "remote" THEN remote[page.port].tabs[page.idx]
  ELSE NULL

\* The cached snapshot as findSelector reads it.
SnapView ==
  [present |-> lastSnapshot.present,
   actions |-> IF lastSnapshot.present THEN PageActions(lastSnapshot.pageUrl) ELSE <<>>]

NoFiles == [snapshot |-> 0, screenshot |-> 0, baseSnapshot |-> 0, baseScreenshot |-> 0]

\* The debugging-enabled browsers a run may start with.
Down == [up |-> FALSE, tabs |-> <<>>]
Up(tabs) == [up |-> TRUE, tabs |-> tabs]
RemoteScenarios ==
  { [p \in CdpPortSet |-> Down],
    [p \in CdpPortSet |-> IF p = 9222 THEN Up(<<Blank>>) ELSE Up(<<UB1, UA1>>)],
    [p \in CdpPortSet |-> IF p = 9222 THEN Up(<<UB1>>) ELSE Up(<<Blank, UA2>>)] }

\* ------------------------------------------------------------------- calls
InteractionOps == {"click", "type", "select", "hover", "press", "scroll",
                   "waitFor", "getValue", "isVisible", "getAttribute", "screenshot"}
\* The interactions that resolve a target through findSelector.
TargetOps == InteractionOps \ {"press", "scroll", "screenshot"}

NoNav == [did |-> FALSE, ok |-> FALSE, url |-> NULL, preUrl |-> NULL, preRemote |-> FALSE]

NoCall ==
  [via |-> "none", op |-> "none", action |-> "none", url |-> NULL,
   target |-> <<>>, arg |-> <<>>, portIdx |-> 0,
   \* the outcome: "pending", "result" (an InteractionResult), "value",
   \* "threw" (a rejected promise), "text" (a tool response)
   kind |-> "none", success |-> FALSE, text |-> "none", selector |-> <<>>,
   msgTarget |-> <<>>, msgFault |-> FALSE, visible |-> FALSE, enabledChecked |-> FALSE,
   closed |-> <<>>,
   \* what the call saw when it started and did since
   preUrl |-> NULL, prePage |-> NoHandle, preDom |-> 0, preRemote |-> FALSE,
   preState |-> <<>>, preFiles |-> NoFiles, nav |-> NoNav, badNav |-> FALSE,
   created |-> FALSE, probes |-> 0]

\* A call as it starts, with what the session holds at that moment.
NewCall(via, op, action, url, target, arg, probes) ==
  [NoCall EXCEPT !.via = via, !.op = op, !.action = action, !.url = url,
                 !.target = target, !.arg = arg, !.kind = "pending",
                 !.preUrl = currentUrl, !.prePage = page, !.preDom = pageDom,
                 !.preRemote = isRemote,
                 !.preState = <<browser, context, page, currentUrl, lastSnapshot, isRemote>>,
                 !.preFiles = files, !.probes = probes]

\* getPage's first test (session.ts:125): attach is tried only without a browser.
EntryPc == IF browser = NoHandle /\ useCdp THEN "cdp" ELSE "gp_launch"

\* A handler without the catch: the fault leaves the handler as it is.
ThrowsUncaught(c) == [c EXCEPT !.kind = "threw"]

\* A fault leaving a session function: the promise rejects.  The tool handler's
\* catch (mcp-server.ts:285-288) turns it into an error text.
Throws(c) ==
  IF c.via = "tool" THEN [c EXCEPT !.kind = "text", !.text = "error"]
  ELSE [c EXCEPT !.kind = "threw"]

\* ------------------------------------------------------ tryConnectCDP (51-118)
EligibleTabs(port) ==
  {i \in 1..Len(remote[port].tabs) : ~IsInternalUrl(remote[port].tabs[i])}

FirstOf(S) == CHOOSE i \in S : \A j \in S : i <= j

\* allPages.find(p => p.url() === targetUrl), then the same-host find; 0: none.
MatchedTab(port, targetUrl) ==
  LET el == EligibleTabs(port)
      exact == {i \in el : remote[port].tabs[i] = targetUrl}
      host == {i \in el : Host(remote[port].tabs[i]) = Host(targetUrl)}
  IN IF exact # {} THEN FirstOf(exact)
     ELSE IF host # {} THEN FirstOf(host)
     ELSE 0

\* A loop whose caller stops when no port gave a page.
NextPortPcGiveUp(c) == IF c.portIdx < Len(CDP_PORTS) THEN "cdp" ELSE "done"

\* The loop moves to the next port, or returns null and getPage launches.
NextPortPc(c) == IF c.portIdx < Len(CDP_PORTS) THEN "cdp" ELSE "gp_launch"

\* getPage lines 127-133: the attached page becomes the session's.
Attach(port, idx, url) ==
  /\ browser' = RemoteHandle(port, 0)
  /\ page' = RemoteHandle(port, idx)
  /\ context' = RemoteHandle(port, 0)
  /\ currentUrl' = url
  /\ isRemote' = TRUE
  /\ cdpConns' = cdpConns + 1
  /\ pageDom' = 0
  /\ pageRoutes' = 0
  /\ pc' = "op"

\* connectOverCDP fails (nothing listens on the port): caught, next port.
CdpConnectFail ==
  /\ pc = "cdp" /\ ~exited
  /\ LET port == CDP_PORTS[call.portIdx + 1] IN
       /\ ~remote[port].up
       /\ call' = [call EXCEPT !.portIdx = @ + 1, !.probes = @ + 1]
       /\ pc' = NextPortPc(call')
  /\ UNCHANGED <<sessionVars, envVars, ghostVars, files, pass, exited, resolverVars>>

\* Connected, but every page is internal: browser.close() and continue.
CdpNoPages ==
  /\ pc = "cdp" /\ ~exited
  /\ LET port == CDP_PORTS[call.portIdx + 1] IN
       /\ remote[port].up
       /\ EligibleTabs(port) = {}
       /\ call' = [call EXCEPT !.portIdx = @ + 1, !.probes = @ + 1]
       /\ pc' = NextPortPc(call')
  /\ UNCHANGED <<sessionVars, envVars, ghostVars, files, pass, exited, resolverVars>>

\* A page with the target URL or the target's host is found (lines 84-100), or
\* no target URL was given and the first usable page is taken (110-112).
CdpAttachFound ==
  /\ pc = "cdp" /\ ~exited
  /\ LET port == CDP_PORTS[call.portIdx + 1]
         idx == IF call.url = NULL THEN FirstOf(EligibleTabs(port))
                ELSE MatchedTab(port, call.url)
     IN
       /\ remote[port].up
       /\ EligibleTabs(port) # {}
       /\ call.url # NULL => MatchedTab(port, call.url) # 0
       /\ Attach(port, idx, remote[port].tabs[idx])
       /\ call' = [call EXCEPT !.portIdx = @ + 1, !.probes = @ + 1, !.created = TRUE]
  /\ UNCHANGED <<lastSnapshot, useCdp, remote, localUrl, localBrowsers, localContexts,
                 localPages, remoteClosed, files, pass, exited, resolverVars>>

\* No page matches: the first usable page is navigated to the target (102-107).
CdpNavigateFirst ==
  /\ pc = "cdp" /\ ~exited
  /\ LET port == CDP_PORTS[call.portIdx + 1]
         idx == FirstOf(EligibleTabs(port))
     IN
       /\ remote[port].up
       /\ EligibleTabs(port) # {}
       /\ call.url # NULL
       /\ MatchedTab(port, call.url) = 0
       /\ remote' = [remote EXCEPT ![port].tabs[idx] = call.url]
       /\ Attach(port, idx, call.url)
       /\ call' = [call EXCEPT !.portIdx = @ + 1, !.probes = @ + 1, !.created = TRUE,
                     !.nav = [did |-> TRUE, ok |-> TRUE, url |-> call.url,
                              preUrl |-> currentUrl, preRemote |-> isRemote],
                     !.badNav = @ \/ currentUrl = call.url \/ isRemote]
  /\ UNCHANGED <<lastSnapshot, useCdp, localUrl, localBrowsers, localContexts,
                 localPages, remoteClosed, files, pass, exited, resolverVars>>

\* That navigation fails: the catch of line 113 swallows the fault with the
\* connection still open, and the loop goes on.
CdpNavigateFail ==
  /\ pc = "cdp" /\ ~exited
  /\ cdpConns < MaxConns
  /\ LET port == CDP_PORTS[call.portIdx + 1] IN
       /\ remote[port].up
       /\ EligibleTabs(port) # {}
       /\ call.url # NULL
       /\ MatchedTab(port, call.url) = 0
       /\ cdpConns' = cdpConns + 1
       /\ call' = [call EXCEPT !.portIdx = @ + 1, !.probes = @ + 1, !.created = TRUE,
                     !.nav = [did |-> TRUE, ok |-> FALSE, url |-> call.url,
                              preUrl |-> currentUrl, preRemote |-> isRemote],
                     !.badNav = @ \/ currentUrl = call.url \/ isRemote]
       /\ pc' = NextPortPc(call')
  /\ UNCHANGED <<sessionVars, envVars, localBrowsers, localContexts, localPages,
                 remoteClosed, pageRoutes, files, pass, exited, resolverVars>>

\* ------------------------------------------------------------ getPage (123-184)
\* Line 139: launch only without a browser.  The browser process exists from
\* the moment chromium.launch is called.
GpLaunch ==
  /\ pc = "gp_launch" /\ ~exited
  /\ IF browser = NoHandle
       THEN /\ localBrowsers' = localBrowsers + 1
            /\ call' = [call EXCEPT !.created = TRUE]
            /\ pc' = "launching"
       ELSE /\ pc' = "gp_context"
            /\ UNCHANGED <<localBrowsers, call>>
  /\ UNCHANGED <<sessionVars, envVars, localContexts, localPages, cdpConns,
                 remoteClosed, pageRoutes, files, pass, exited, resolverVars>>

\* chromium.launch resolves (lines 142-146).
LaunchDone ==
  /\ pc = "launching" /\ ~exited
  /\ browser' = LocalHandle
  /\ isRemote' = FALSE
  /\ pc' = "gp_context"
  /\ UNCHANGED <<context, page, currentUrl, lastSnapshot, envVars, ghostVars,
                 files, pass, call, exited, resolverVars>>

\* chromium.launch rejects: no browser process is left, getPage throws.
LaunchFail ==
  /\ pc = "launching" /\ ~exited
  /\ localBrowsers' = localBrowsers - 1
  /\ call' = Throws(call)
  /\ pc' = "done"
  /\ UNCHANGED <<sessionVars, envVars, localContexts, localPages, cdpConns,
                 remoteClosed, pageRoutes, files, pass, exited, resolverVars>>

\* Lines 150-152.
GpContext ==
  /\ pc = "gp_context" /\ ~exited
  /\ IF context = NoHandle
       THEN /\ context' = LocalHandle
            /\ localContexts' = localContexts + 1
            /\ call' = [call EXCEPT !.created = TRUE]
       ELSE UNCHANGED <<context, localContexts, call>>
  /\ pc' = "gp_page"
  /\ UNCHANGED <<browser, page, currentUrl, lastSnapshot, isRemote, envVars,
                 localBrowsers, localPages, cdpConns, remoteClosed, pageRoutes,
                 files, pass, exited, resolverVars>>

\* browser.newContext rejects.
GpContextFail ==
  /\ pc = "gp_context" /\ ~exited
  /\ context = NoHandle
  /\ call' = Throws(call)
  /\ pc' = "done"
  /\ UNCHANGED <<sessionVars, envVars, ghostVars, files, pass, exited, resolverVars>>

\* Lines 155-170: a new page opens blank and gets the request filter.
GpPage ==
  /\ pc = "gp_page" /\ ~exited
  /\ IF page = NoHandle
       THEN /\ page' = LocalHandle
            /\ localUrl' = Blank
            /\ pageDom' = 0
            /\ localPages' = localPages + 1
            /\ pageRoutes' = 1
            /\ call' = [call EXCEPT !.created = TRUE]
       ELSE UNCHANGED <<page, localUrl, pageDom, localPages, pageRoutes, call>>
  /\ pc' = "gp_nav"
  /\ UNCHANGED <<browser, context, currentUrl, lastSnapshot, isRemote, useCdp, remote,
                 localBrowsers, localContexts, cdpConns, remoteClosed, files, pass,
                 exited, resolverVars>>

\* context.newPage rejects.
GpPageFail ==
  /\ pc = "gp_page" /\ ~exited
  /\ page = NoHandle
  /\ call' = Throws(call)
  /\ pc' = "done"
  /\ UNCHANGED <<sessionVars, envVars, ghostVars, files, pass, exited, resolverVars>>

\* The page the held handle names now shows u, freshly loaded.
ShowUrl(u) ==
  /\ IF page.kind = "remote"
       THEN /\ remote' = [remote EXCEPT ![page.port].tabs[page.idx] = u]
            /\ UNCHANGED localUrl
       ELSE /\ localUrl' = u
            /\ UNCHANGED remote
  /\ pageDom' = 0

\* A navigation test that forgets the tracked URL.
ShouldNavigateAnyUrl(url) == url # NULL /\ ~isRemote

\* The test of line 173.
ShouldNavigate(url) == url # NULL /\ url # currentUrl /\ ~isRemote

\* Lines 173-181 when page.goto succeeds or no navigation is due.
GpNav ==
  /\ pc = "gp_nav" /\ ~exited
  /\ IF ShouldNavigate(call.url)
       THEN /\ ShowUrl(call.url)
            /\ currentUrl' = call.url
            /\ call' = [call EXCEPT
                 !.nav = [did |-> TRUE, ok |-> TRUE, url |-> call.url,
                          preUrl |-> currentUrl, preRemote |-> isRemote],
                 !.badNav = @ \/ call.url = NULL \/ currentUrl = call.url \/ isRemote]
       ELSE /\ currentUrl' = IF isRemote THEN PageUrl ELSE currentUrl
            /\ UNCHANGED <<remote, localUrl, pageDom, call>>
  /\ pc' = "op"
  /\ UNCHANGED <<browser, context, page, lastSnapshot, isRemote, useCdp, ghostVars,
                 files, pass, exited, resolverVars>>

\* A rejected goto that has already recorded the URL as the tracked one.
NavRejectedTracked == currentUrl' = call.url

\* page.goto rejects at line 174: the assignment of line 177 is not reached.
NavRejected == UNCHANGED currentUrl

\* page.goto rejects (timeout): getPage throws before line 177.  The page may
\* or may not have left the document it showed.
GpNavFail ==
  /\ pc = "gp_nav" /\ ~exited
  /\ ShouldNavigate(call.url)
  /\ \/ ShowUrl(call.url)
     \/ UNCHANGED <<remote, localUrl, pageDom>>
  /\ call' = Throws([call EXCEPT
       !.nav = [did |-> TRUE, ok |-> FALSE, url |-> call.url,
                preUrl |-> currentUrl, preRemote |-> isRemote],
       !.badNav = @ \/ call.url = NULL \/ currentUrl = call.url \/ isRemote])
  /\ NavRejected
  /\ pc' = "done"
  /\ UNCHANGED <<browser, context, page, lastSnapshot, isRemote, useCdp, ghostVars,
                 files, pass, exited, resolverVars>>

\* ------------------------------------------------- the interactions (348-741)
ElementKind(hit, u) == IF hit = 0 THEN "none" ELSE PageElements(u)[hit].kind

\* Whether the browser operation inside the try block completes.  fault is a
\* fault of the page itself (keyboard, evaluate, screenshot timeout, a
\* visibility query the browser rejects).
OpCompletes(op, hit, u, fault) ==
  CASE op \in {"click", "hover", "waitFor", "getAttribute", "getValue"} -> hit # 0
    [] op = "type" -> ElementKind(hit, u) = "input"
    [] op = "select" -> ElementKind(hit, u) = "select"
    [] op = "isVisible" -> ~fault
    [] OTHER -> ~fault

\* A result whose message quotes the resolved selector instead of the target.
InteractionResultQuotesSelector(c, sel, ok, hit) ==
  [c EXCEPT !.kind = "result", !.success = ok, !.selector = sel,
            !.msgTarget = sel,
            !.msgFault = ~ok /\ c.op # "waitFor",
            !.visible = c.op = "isVisible" /\ ok /\ hit # 0,
            !.enabledChecked = c.op = "isVisible" /\ ok /\ hit # 0]

\* The InteractionResult each function builds in its try and catch branches.
InteractionResult(c, sel, ok, hit) ==
  [c EXCEPT !.kind = "result", !.success = ok, !.selector = sel,
            !.msgTarget = IF c.op = "screenshot" /\ ~ok THEN <<>> ELSE c.target,
            !.msgFault = ~ok /\ c.op # "waitFor",
            !.visible = c.op = "isVisible" /\ ok /\ hit # 0,
            !.enabledChecked = c.op = "isVisible" /\ ok /\ hit # 0]

\* The response text the tool handler renders from a result
\* (mcp-server.ts:190-197 and the like).
Rendered(c) ==
  IF c.via = "tool"
    THEN [c EXCEPT !.kind = "text", !.text = IF c.success THEN "ok" ELSE "failed"]
    ELSE c

Interact ==
  /\ pc = "op" /\ ~exited
  /\ call.op \in InteractionOps
  /\ \E fault \in BOOLEAN :
       LET u == PageUrl
           sel == IF call.op \in TargetOps THEN findSelector(call.target, SnapView)
                  ELSE call.target
           hit == IF call.op \in TargetOps THEN LiveMatch(sel, u) ELSE 0
           ok == OpCompletes(call.op, hit, u, fault)
           kind == ElementKind(hit, u)
       IN
         /\ fault => call.op \in {"press", "scroll", "screenshot", "isVisible"}
         /\ call' = Rendered(InteractionResult(call, sel, ok, hit))
         /\ IF call.op = "click" /\ kind = "link"
              THEN ShowUrl(LinkTarget(u))
              ELSE /\ pageDom' = IF call.op = "click" /\ kind = "button"
                                   THEN pageDom + 1 ELSE pageDom
                   /\ UNCHANGED <<remote, localUrl>>
  /\ pc' = "done"
  /\ UNCHANGED <<sessionVars, useCdp, ghostVars, files, pass, exited, resolverVars>>

\* ------------------------------------------- analyze, saveBaseline (220-299)
\* A saveBaseline that copies nothing.
saveBaselineNothing(f) == f

\* A saveBaseline that copies the snapshot document only.
saveBaselineSnapshotOnly(f) ==
  [f EXCEPT !.baseSnapshot = IF f.snapshot # 0 THEN f.snapshot ELSE @]

\* saveBaseline: each current file that exists is copied over its baseline.
saveBaseline(f) ==
  [f EXCEPT !.baseSnapshot = IF f.snapshot # 0 THEN f.snapshot ELSE @,
            !.baseScreenshot = IF f.screenshot # 0 THEN f.screenshot ELSE @]

\* analyze after getPage: extract, screenshot (a failure is skipped), cache
\* the snapshot, write snapshot.json; then what the caller does with it.
Analyze ==
  /\ pc = "op" /\ ~exited
  /\ call.op = "analyze"
  /\ \E shot \in BOOLEAN :
       LET n == pass + 1
           written == [files EXCEPT !.snapshot = n,
                                    !.screenshot = IF shot THEN n ELSE @]
       IN
         /\ pass' = n
         /\ lastSnapshot' = [present |-> TRUE, url |-> call.url, pageUrl |-> PageUrl]
         /\ files' = IF call.action = "baseline" THEN saveBaseline(written) ELSE written
         /\ call' = CASE call.action = "look" ->
                           [call EXCEPT !.kind = "text", !.text = "report", !.success = TRUE]
                      [] call.action = "baseline" ->
                           [call EXCEPT !.kind = "text", !.text = "baseline-saved",
                                        !.success = TRUE]
                      [] call.action = "diff" ->
                           [call EXCEPT !.kind = "text", !.text = "diff-report",
                                        !.success = TRUE]
                      [] OTHER -> [call EXCEPT !.kind = "value", !.success = TRUE]
  /\ pc' = "done"
  /\ UNCHANGED <<browser, context, page, currentUrl, isRemote, envVars, ghostVars,
                 exited, resolverVars>>

\* An extractor's page.evaluate rejects: analyze throws before anything is
\* cached or written.
AnalyzeFail ==
  /\ pc = "op" /\ ~exited
  /\ call.op = "analyze"
  /\ call' = Throws(call)
  /\ pc' = "done"
  /\ UNCHANGED <<sessionVars, envVars, ghostVars, files, pass, exited, resolverVars>>

\* ------------------------------------------------------ closeSession (189-215)
\* What closing the held browser does to the process or the connection.
CloseBrowserCounts ==
  /\ localBrowsers' = IF browser.kind = "local" THEN localBrowsers - 1 ELSE localBrowsers
  /\ cdpConns' = IF browser.kind = "remote" THEN cdpConns - 1 ELSE cdpConns

\* A teardown that treats every session as locally launched.
DisconnectNever == FALSE

\* The branch test of line 191: a remote session is only disconnected.
DisconnectOnly == isRemote

\* A reset that keeps the cached snapshot.
ResetUrlOnly == currentUrl' = NULL /\ UNCHANGED lastSnapshot

\* Lines 199-200 and 213-214.
ResetTracking == currentUrl' = NULL /\ lastSnapshot' = NoSnapshot

closeSession(c) ==
  IF DisconnectOnly
    THEN /\ IF browser # NoHandle
              THEN CloseBrowserCounts
              ELSE UNCHANGED <<localBrowsers, cdpConns>>
         /\ UNCHANGED <<localContexts, localPages, remoteClosed>>
         /\ browser' = NoHandle /\ context' = NoHandle /\ page' = NoHandle
         /\ pageRoutes' = 0
         /\ ResetTracking /\ isRemote' = FALSE
         /\ call' = [c EXCEPT !.closed =
                       IF browser # NoHandle THEN <<"disconnect">> ELSE <<>>]
    ELSE /\ IF context # NoHandle
              THEN /\ localContexts' = IF context.kind = "local" THEN localContexts - 1
                                       ELSE localContexts
                   /\ localPages' = IF page.kind = "local" THEN localPages - 1
                                    ELSE localPages
                   /\ remoteClosed' = (remoteClosed \/ context.kind = "remote")
                   /\ context' = NoHandle /\ page' = NoHandle
                   /\ pageRoutes' = 0
              ELSE UNCHANGED <<localContexts, localPages, remoteClosed, context, page,
                               pageRoutes>>
         /\ IF browser # NoHandle
              THEN CloseBrowserCounts /\ browser' = NoHandle
              ELSE UNCHANGED <<localBrowsers, cdpConns, browser>>
         /\ ResetTracking
         /\ UNCHANGED isRemote
         /\ call' = [c EXCEPT !.closed =
                       (IF context # NoHandle THEN <<"context">> ELSE <<>>)
                       \o (IF browser # NoHandle THEN <<"browser">> ELSE <<>>)]

\* ----------------------------------------------------- the session API's callers
ApiUrls == {NULL, UA1, UA2}
\* The targets a caller passes: the button's test id and a test id no page has;
\* for click also the link's id selector, for type and getValue the input's
\* test id, for select the select's.
OpTargets(op) ==
  CASE op = "click" -> {<<"o", "k">>, <<"n", "o">>, <<"#", "l">>}
    [] op \in {"type", "getValue"} -> {<<"i", "n">>, <<"o", "k">>}
    [] op = "select" -> {<<"s", "e">>, <<"n", "o">>}
    [] op \in {"hover", "waitFor", "isVisible", "getAttribute"} -> {<<"o", "k">>, <<"n", "o">>}
    [] OTHER -> {<<>>}
\* The key of press, the direction of scroll, the output path of screenshot.
\* The path is a file of the caller's own, none of the four files the session
\* keeps in its output directory.
OpArgument(op) ==
  CASE op = "press" -> <<"E">>
    [] op = "scroll" -> <<"d">>
    [] op = "screenshot" -> <<"p">>
    [] OTHER -> <<>>

\* click, type, ... called directly: the function's first await is getPage(url).
ApiInteraction ==
  /\ pc = "idle" /\ ~exited
  /\ \E op \in InteractionOps, url \in ApiUrls :
     \E t \in OpTargets(op) :
       /\ op = "click" => pageDom < MaxDom
       /\ call' = NewCall("api", op, "none", url,
                          IF op \in TargetOps THEN t ELSE OpArgument(op), <<>>, 0)
  /\ pc' = EntryPc
  /\ UNCHANGED <<sessionVars, envVars, ghostVars, files, pass, exited, resolverVars>>

\* analyze(url) called directly.
ApiAnalyze ==
  /\ pc = "idle" /\ ~exited
  /\ pass < MaxPass
  /\ \E url \in ApiUrls \ {NULL} :
       call' = NewCall("api", "analyze", "none", url, <<>>, <<>>, 0)
  /\ pc' = EntryPc
  /\ UNCHANGED <<sessionVars, envVars, ghostVars, files, pass, exited, resolverVars>>

ApiSaveBaseline ==
  /\ pc = "idle" /\ ~exited
  /\ files' = saveBaseline(files)
  /\ call' = [NewCall("api", "saveBaseline", "none", NULL, <<>>, <<>>, 0)
                EXCEPT !.kind = "value", !.success = TRUE]
  /\ pc' = "done"
  /\ UNCHANGED <<sessionVars, envVars, ghostVars, pass, exited, resolverVars>>

ApiCloseSession ==
  /\ pc = "idle" /\ ~exited
  /\ closeSession([NewCall("api", "closeSession", "none", NULL, <<>>, <<>>, 0)
                     EXCEPT !.kind = "void", !.success = TRUE])
  /\ pc' = "done"
  /\ UNCHANGED <<envVars, files, pass, exited, resolverVars>>

\* ------------------------------------------- the tool-call handler (135-289)
\* detectActivePage: the first debug port with a usable tab wins; a dev server
\* on port 5173 and the fallback give the same URL.
DetectingPorts == {i \in 1..Len(CDP_PORTS) :
                     remote[CDP_PORTS[i]].up /\ EligibleTabs(CDP_PORTS[i]) # {}}

detectActivePage ==
  IF DetectingPorts # {}
    THEN LET port == CDP_PORTS[FirstOf(DetectingPorts)]
         IN remote[port].tabs[FirstOf(EligibleTabs(port))]
    ELSE DefaultUrl

\* connectOverCDP calls detectActivePage makes (one per port tried).
DetectProbes == IF DetectingPorts # {} THEN FirstOf(DetectingPorts) ELSE Len(CDP_PORTS)

resolveUrl(providedUrl) == IF providedUrl # NULL THEN providedUrl ELSE detectActivePage

ResolveProbes(providedUrl) == IF providedUrl # NULL THEN 0 ELSE DetectProbes

ToolUrls == {NULL, UA1}
ToolInteractions == {"click", "type", "select", "hover", "scroll", "press"}
ToolAnalyses == {"look", "baseline", "diff"}
\* text, value or key as given (<<>>: not given)
ToolArgs == {<<>>, <<"E">>}
\* The targets a tool call names: the element the action is meant for, and for
\* click also a test id no page has.
ToolTargets(action) ==
  CASE action = "click" -> {<<"o", "k">>, <<"n", "o">>}
    [] action = "type" -> {<<"i", "n">>}
    [] action = "select" -> {<<"s", "e">>}
    [] action = "hover" -> {<<"o", "k">>}
    [] OTHER -> {<<>>}

\* The parameter checks of the switch: !target, !target || !text,
\* !target || !value, !key.
MissingParam(action, target, arg) ==
  CASE action \in {"click", "hover"} -> target = <<>>
    [] action \in {"type", "select"} -> target = <<>> \/ arg = <<>>
    [] action = "press" -> arg = <<>>
    [] OTHER -> FALSE

\* A response returned without entering a session function.
ToolReply(action, url, text) ==
  [NewCall("tool", "none", action, resolveUrl(url), <<>>, <<>>, ResolveProbes(url))
     EXCEPT !.kind = "text", !.text = text]

\* name is not 'websight' (line 284): no URL is resolved.
ToolUnknownTool ==
  /\ pc = "idle" /\ ~exited
  /\ call' = [NewCall("tool", "none", "none", NULL, <<>>, <<>>, 0)
                EXCEPT !.kind = "text", !.text = "unknown-tool"]
  /\ pc' = "done"
  /\ UNCHANGED <<sessionVars, envVars, ghostVars, files, pass, exited, resolverVars>>

\* The default branch of the switch (line 280).
ToolUnknownAction ==
  /\ pc = "idle" /\ ~exited
  /\ \E url \in ToolUrls : call' = ToolReply("bogus", url, "unknown-action")
  /\ pc' = "done"
  /\ UNCHANGED <<sessionVars, envVars, ghostVars, files, pass, exited, resolverVars>>

\* A required parameter is missing (lines 186, 203, 220, 236, 265).
ToolMissingParam ==
  /\ pc = "idle" /\ ~exited
  /\ \E action \in ToolInteractions, url \in ToolUrls, arg \in ToolArgs :
     \E t \in ToolTargets(action) \cup {<<>>} :
       /\ MissingParam(action, t, arg)
       /\ call' = ToolReply(action, url, "missing-param")
  /\ pc' = "done"
  /\ UNCHANGED <<sessionVars, envVars, ghostVars, files, pass, exited, resolverVars>>

\* diff without snapshot-before.json (lines 163-172).
ToolNoBaseline ==
  /\ pc = "idle" /\ ~exited
  /\ files.baseSnapshot = 0
  /\ \E url \in ToolUrls : call' = ToolReply("diff", url, "no-baseline")
  /\ pc' = "done"
  /\ UNCHANGED <<sessionVars, envVars, ghostVars, files, pass, exited, resolverVars>>

\* look, baseline, and diff with a baseline: analyze(url) is entered.
ToolAnalysis ==
  /\ pc = "idle" /\ ~exited
  /\ pass < MaxPass
  /\ \E action \in ToolAnalyses, url \in ToolUrls :
       /\ action = "diff" => files.baseSnapshot # 0
       /\ call' = NewCall("tool", "analyze", action, resolveUrl(url), <<>>, <<>>,
                          ResolveProbes(url))
  /\ pc' = EntryPc
  /\ UNCHANGED <<sessionVars, envVars, ghostVars, files, pass, exited, resolverVars>>

\* click, type, select, hover, scroll, press with their parameters present.
ToolInteraction ==
  /\ pc = "idle" /\ ~exited
  /\ \E action \in ToolInteractions, url \in ToolUrls, arg \in ToolArgs :
     \E t \in ToolTargets(action) :
       /\ ~MissingParam(action, t, arg)
       /\ action \in {"click", "hover", "scroll"} => arg = <<>>
       /\ action = "click" => pageDom < MaxDom
       /\ call' = NewCall("tool", action, action, resolveUrl(url),
                          CASE action = "press" -> arg
                            [] action = "scroll" -> OpArgument("scroll")
                            [] OTHER -> t,
                          IF action \in {"type", "select"} THEN arg ELSE <<>>,
                          ResolveProbes(url))
  /\ pc' = EntryPc
  /\ UNCHANGED <<sessionVars, envVars, ghostVars, files, pass, exited, resolverVars>>

\* process.on('SIGINT') (lines 292-295): closeSession, then process.exit(0).
\* With nothing to close the handler has no suspension before the exit; with
\* something to close, a call in flight cannot launch or attach meanwhile (it
\* already holds the browser), so teardown and exit are one step.
Sigint ==
  /\ ~exited
  /\ closeSession([NoCall EXCEPT !.via = "signal"])
  /\ exited' = TRUE
  /\ UNCHANGED <<envVars, files, pass, pc, resolverVars>>

\* The caller takes the outcome of the call; the next call may start.
Return ==
  /\ pc = "done" /\ ~exited
  /\ call' = NoCall
  /\ pc' = "idle"
  /\ UNCHANGED <<sessionVars, envVars, ghostVars, files, pass, exited, resolverVars>>

\* ------------------------------------------------ compare.ts: the snapshot diff
\* A key an object lacks (a lookup that gives undefined).
Undefined == "undefined"

\* a || b on strings: undefined and the empty string are falsy.
OrElse(v, d) == IF v = Undefined \/ v = "" THEN d ELSE v

\* The list of compareSnapshots lines 131-134.
themeProps == <<"bodyBackground", "bodyTextColor", "bodyFontFamily", "bodyFontSize",
                "lineHeight">>

\* The custom properties a page may declare, in declaration order.
CssKeys == <<"--a", "--b">>

\* Object.keys of a cssVariables object.
ObjectKeys(m) == SelectSeq(CssKeys, LAMBDA k : m[k] # Undefined)

\* [...new Set(xs)].filter(x => !ys.has(x)) for lists without repetitions.
NotIn(xs, ys) == SelectSeq(xs, LAMBDA x : \A j \in 1..Len(ys) : ys[j] # x)

\* Lines 136-145.
themeChanges(before, after) ==
  LET differing == SelectSeq(themeProps,
                             LAMBDA p : before.theme.props[p] # after.theme.props[p])
  IN [i \in 1..Len(differing) |->
        [property |-> differing[i],
         before |-> before.theme.props[differing[i]],
         after |-> after.theme.props[differing[i]]]]

\* Lines 147-162: the union of the keys in insertion order, each compared with
\* the sentinels standing in for a missing value.
cssVariableChanges(before, after) ==
  LET beforeVars == before.theme.cssVariables
      afterVars == after.theme.cssVariables
      allVars == ObjectKeys(beforeVars)
                   \o SelectSeq(ObjectKeys(afterVars), LAMBDA k : beforeVars[k] = Undefined)
      beforeVal(k) == OrElse(beforeVars[k], "(not set)")
      afterVal(k) == OrElse(afterVars[k], "(removed)")
      differing == SelectSeq(allVars, LAMBDA k : beforeVal(k) # afterVal(k))
  IN [i \in 1..Len(differing) |->
        [property |-> differing[i],
         before |-> beforeVal(differing[i]),
         after |-> afterVal(differing[i])]]

\* Lines 164-173: one entry when a border radius was added or removed.
layoutChanges(before, after) ==
  LET addedRadii == NotIn(after.theme.borderRadii, before.theme.borderRadii)
      removedRadii == NotIn(before.theme.borderRadii, after.theme.borderRadii)
  IN IF addedRadii # <<>> \/ removedRadii # <<>>
       THEN <<[removed |-> removedRadii, added |-> addedRadii]>>
       ELSE <<>>

\* s.testId || s.name
SectionKey(sec) == OrElse(sec.testId, sec.name)
SectionKeys(snap) == [i \in 1..Len(snap.sections) |-> SectionKey(snap.sections[i])]

\* compareImages returning null.
NoImageDiff ==
  [present |-> FALSE, diffPercent |-> 0, diffPixels |-> 0, totalPixels |-> 0,
   diffImagePath |-> NULL, hasSignificantChange |-> FALSE]

\* Math.round(numDiffPixels / totalPixels * 100 * 100), the reported percentage
\* in hundredths of a percent.
RoundedPercent(numDiffPixels, totalPixels) ==
  (numDiffPixels * 20000 + totalPixels) \div (2 * totalPixels)

\* An image comparison without the size test.
compareImagesAnySize(im) ==
  IF ~im.before.exists \/ ~im.after.exists THEN NoImageDiff
  ELSE IF ~im.before.readable \/ ~im.after.readable THEN NoImageDiff
  ELSE LET totalPixels == im.before.width * im.before.height
       IN [present |-> TRUE,
           diffPercent |-> RoundedPercent(im.numDiffPixels, totalPixels),
           diffPixels |-> im.numDiffPixels,
           totalPixels |-> totalPixels,
           diffImagePath |-> "diff.png",
           hasSignificantChange |-> im.numDiffPixels * 200 > totalPixels]

\* compareImages (42-93).  im holds the two files and the count pixelmatch
\* gives for them; percentages are in hundredths of a percent.
compareImages(im) ==
  IF ~im.before.exists \/ ~im.after.exists THEN NoImageDiff
  ELSE IF ~im.before.readable \/ ~im.after.readable THEN NoImageDiff
  ELSE LET totalPixels == im.before.width * im.before.height
       IN IF im.before.width # im.after.width \/ im.before.height # im.after.height
            THEN [present |-> TRUE, diffPercent |-> 10000, diffPixels |-> -1,
                  totalPixels |-> totalPixels, diffImagePath |-> NULL,
                  hasSignificantChange |-> TRUE]
            ELSE [present |-> TRUE,
                  diffPercent |-> RoundedPercent(im.numDiffPixels, totalPixels),
                  diffPixels |-> im.numDiffPixels,
                  totalPixels |-> totalPixels,
                  diffImagePath |-> "diff.png",
                  \* diffPercent > 0.5 on the unrounded quotient
                  hasSignificantChange |-> im.numDiffPixels * 200 > totalPixels]

\* One fragment of the summary: its wording and the numbers it prints.
Fragment(kind, n, m) == [kind |-> kind, n |-> n, m |-> m]

\* Lines 189-216: the fragments in the order they are pushed; none stands for
\* 'No visual changes detected'.
Summary(imageDiff, theme, css, added, removed, layout) ==
  LET changes ==
        (IF imageDiff.present /\ imageDiff.hasSignificantChange
           THEN <<Fragment("visual difference", imageDiff.diffPercent, 0)>> ELSE <<>>)
        \o (IF Len(theme) > 0 THEN <<Fragment("theme changes", Len(theme), 0)>> ELSE <<>>)
        \o (IF Len(css) > 0 THEN <<Fragment("CSS variable changes", Len(css), 0)>> ELSE <<>>)
        \o (IF Len(added) > 0 \/ Len(removed) > 0
              THEN <<Fragment("sections", Len(added), Len(removed))>> ELSE <<>>)
        \o (IF Len(layout) > 0 THEN <<Fragment("layout changes", Len(layout), 0)>> ELSE <<>>)
      final ==
        IF changes = <<>> /\ imageDiff.present /\ imageDiff.diffPercent > 0
          THEN <<Fragment("pixel difference", imageDiff.diffPercent, 0)>>
          ELSE changes
  IN [none |-> final = <<>>, changes |-> final]

\* compareSnapshots (95-219); written lists the files the call wrote.
compareSnapshots(before, after, im) ==
  LET imageDiff == IF im.paths THEN compareImages(im) ELSE NoImageDiff
      theme == themeChanges(before, after)
      css == cssVariableChanges(before, after)
      layout == layoutChanges(before, after)
      added == NotIn(SectionKeys(after), SectionKeys(before))
      removed == NotIn(SectionKeys(before), SectionKeys(after))
  IN [summary |-> Summary(imageDiff, theme, css, added, removed, layout),
      themeChanges |-> theme,
      cssVariableChanges |-> css,
      sectionsAdded |-> added,
      sectionsRemoved |-> removed,
      actionsAdded |-> NotIn(after.actions, before.actions),
      actionsRemoved |-> NotIn(before.actions, after.actions),
      layoutChanges |-> layout,
      imageDiff |-> imageDiff,
      written |-> IF imageDiff.diffImagePath # NULL THEN {imageDiff.diffImagePath} ELSE {}]

\* ------------------------------------------------------------ specifications
\* The inputs of the comparison specification.
ThemeValues(bg) ==
  [p \in {themeProps[i] : i \in 1..Len(themeProps)} |->
     IF p = "bodyBackground" THEN bg ELSE "same"]

\* What a snapshot holds besides its custom properties: the plain page, and the
\* page with its background, its radii, its sections, its actions, or all of
\* them changed.
SnapshotShapes ==
  LET shape(bg, radii, sections, actions) ==
        [props |-> ThemeValues(bg), borderRadii |-> radii,
         sections |-> sections, actions |-> actions]
      hero == [testId |-> "hero", name |-> "Hero"]
      side == [testId |-> Undefined, name |-> "Side"]
  IN { shape("white", <<"4px">>, <<hero>>, <<"Ok">>),
       shape("black", <<"4px">>, <<hero>>, <<"Ok">>),
       shape("white", <<"4px", "8px">>, <<hero>>, <<"Ok">>),
       shape("white", <<"4px">>, <<hero, side>>, <<"Ok">>),
       shape("white", <<"4px">>, <<hero>>, <<"Ok", "Go">>),
       shape("black", <<"8px">>, <<side>>, <<"Go">>) }

CssVariablePool ==
  {[k \in {CssKeys[i] : i \in 1..Len(CssKeys)} |-> IF k = "--a" THEN a ELSE b] :
     a \in {Undefined, "", "1", "2"}, b \in {Undefined, "2"}}

ComparePool ==
  {[theme |-> [props |-> sh.props, cssVariables |-> css, borderRadii |-> sh.borderRadii],
    sections |-> sh.sections, actions |-> sh.actions] :
     sh \in SnapshotShapes, css \in CssVariablePool}

\* Screenshot files: missing, undecodable, or an image of one of three sizes.
NoImage == [exists |-> FALSE, readable |-> FALSE, width |-> 0, height |-> 0, id |-> 0]
BadImage == [exists |-> TRUE, readable |-> FALSE, width |-> 0, height |-> 0, id |-> 0]
Image(w, h, id) == [exists |-> TRUE, readable |-> TRUE, width |-> w, height |-> h, id |-> id]
ImageSizes == {<<2, 1>>, <<199, 1>>, <<1280, 720>>}

\* The image inputs: no paths given; a file missing or undecodable; two images,
\* where the same image has no differing pixel and pixelmatch is asked only for
\* images of one size.
ImageCases ==
  {[paths |-> FALSE, before |-> NoImage, after |-> NoImage, numDiffPixels |-> 0]}
  \cup
  {[paths |-> TRUE, before |-> b, after |-> a, numDiffPixels |-> 0] :
     b \in {NoImage} \cup {Image(sz[1], sz[2], 1) : sz \in ImageSizes},
     a \in {NoImage, BadImage} \cup {Image(sz[1], sz[2], 1) : sz \in ImageSizes}}
  \cup
  {[paths |-> TRUE, before |-> Image(sz[1], sz[2], 1), after |-> Image(sz[1], sz[2], 2),
    numDiffPixels |-> d] : sz \in ImageSizes, d \in 0..MaxDiffPixels}

NoCompareInput ==
  /\ cmpBefore = <<>> /\ cmpAfter = <<>> /\ cmpImages = <<>>
  /\ cmpResult = <<>> /\ cmpDone = FALSE

NoResolverInput ==
  /\ rTarget = <<>>
  /\ rSnap = [present |-> FALSE, actions |-> <<>>]
  /\ rResult = <<>>
  /\ rDone = FALSE
  /\ NoCompareInput

InitSession ==
  /\ browser = NoHandle /\ context = NoHandle /\ page = NoHandle
  /\ currentUrl = NULL /\ lastSnapshot = NoSnapshot /\ isRemote = FALSE
  /\ localUrl = Blank /\ pageDom = 0
  /\ localBrowsers = 0 /\ localContexts = 0 /\ localPages = 0 /\ cdpConns = 0
  /\ remoteClosed = FALSE
  /\ pageRoutes = 0
  /\ files = NoFiles /\ pass = 0
  /\ call = NoCall /\ pc = "idle"
  /\ exited = FALSE

\* Without USE_CDP the session manager never looks at a debug port.
Init ==
  /\ InitSession
  /\ useCdp \in BOOLEAN
  /\ remote \in RemoteScenarios
  /\ ~useCdp => remote = [p \in CdpPortSet |-> Down]
  /\ NoResolverInput

\* The server's URL detection probes the debug ports whatever USE_CDP says.
InitServer ==
  /\ InitSession
  /\ useCdp \in BOOLEAN
  /\ remote \in RemoteScenarios
  /\ NoResolverInput

GetPageStep ==
  \/ CdpConnectFail \/ CdpNoPages \/ CdpAttachFound \/ CdpNavigateFirst \/ CdpNavigateFail
  \/ GpLaunch \/ LaunchDone \/ LaunchFail
  \/ GpContext \/ GpContextFail
  \/ GpPage \/ GpPageFail
  \/ GpNav \/ GpNavFail

OpStep == Interact \/ Analyze \/ AnalyzeFail

\* A program that calls the session API directly, one call at a time.
Next ==
  \/ ApiInteraction \/ ApiAnalyze \/ ApiCloseSession
  \/ GetPageStep \/ OpStep \/ Return

Spec == Init /\ [][Next]_vars

\* A program that analyzes, interacts, saves baselines and closes, with a
\* browser it launches itself.
InitBaseline ==
  /\ InitSession
  /\ useCdp = FALSE
  /\ remote = [p \in CdpPortSet |-> Down]
  /\ NoResolverInput

NextBaseline ==
  \/ ApiInteraction \/ ApiAnalyze \/ ApiSaveBaseline \/ ApiCloseSession
  \/ GpLaunch \/ LaunchDone \/ LaunchFail
  \/ GpContext \/ GpContextFail
  \/ GpPage \/ GpPageFail
  \/ GpNav \/ GpNavFail
  \/ OpStep \/ Return

SpecBaseline == InitBaseline /\ [][NextBaseline]_vars

\* The MCP server process: tool calls one at a time, and the interrupt signal.
NextServer ==
  \/ ToolUnknownTool \/ ToolUnknownAction \/ ToolMissingParam \/ ToolNoBaseline
  \/ ToolAnalysis \/ ToolInteraction
  \/ GetPageStep \/ OpStep \/ Return
  \/ Sigint

SpecServer == InitServer /\ [][NextServer]_vars

\* The resolver as a pure function of a target and a cached snapshot.
TargetChars == {"a", "A", "-", " ", "#", "=", "[", "."}
StringsUpTo(chars, n) == UNION {[1..k -> chars] : k \in 0..n}

RawActionPool ==
  {[role |-> <<"b">>, name |-> nm, testId |-> tid, id |-> id] :
     nm \in {<<"A">>, <<"a", "-">>}, tid \in {<<>>, <<"a">>}, id \in {<<>>, <<"a">>}}

SnapshotPool ==
  {[present |-> FALSE, actions |-> <<>>]} \cup
  {[present |-> TRUE, actions |-> [i \in 1..Len(raws) |-> ToAction(raws[i])]] :
     raws \in UNION {[1..k -> RawActionPool] : k \in 0..MaxActions}}

InitResolver ==
  /\ InitSession
  /\ useCdp = FALSE
  /\ remote = [p \in CdpPortSet |-> Down]
  /\ rTarget \in StringsUpTo(TargetChars, MaxTargetLen)
  /\ rSnap \in SnapshotPool
  /\ rResult = <<>>
  /\ rDone = FALSE
  /\ NoCompareInput

Resolve ==
  /\ ~rDone
  /\ rResult' = findSelector(rTarget, rSnap)
  /\ rDone' = TRUE
  /\ UNCHANGED <<sessionVars, envVars, ghostVars, files, pass, call, pc, exited,
                 rTarget, rSnap, compareVars>>

NextResolver == Resolve

SpecResolver == InitResolver /\ [][NextResolver]_vars

\* The snapshot diff as a pure function of two snapshots and two screenshots.
InitCompare ==
  /\ InitSession
  /\ useCdp = FALSE
  /\ remote = [p \in CdpPortSet |-> Down]
  /\ rTarget = <<>> /\ rSnap = [present |-> FALSE, actions |-> <<>>]
  /\ rResult = <<>> /\ rDone = FALSE
  /\ cmpBefore \in ComparePool
  /\ cmpAfter \in ComparePool
  /\ cmpImages \in ImageCases
  /\ cmpResult = <<>>
  /\ cmpDone = FALSE

Compare ==
  /\ ~cmpDone
  /\ cmpResult' = compareSnapshots(cmpBefore, cmpAfter, cmpImages)
  /\ cmpDone' = TRUE
  /\ UNCHANGED <<sessionVars, envVars, ghostVars, files, pass, call, pc, exited,
                 rTarget, rSnap, rResult, rDone, cmpBefore, cmpAfter, cmpImages>>

NextCompare == Compare

SpecCompare == InitCompare /\ [][NextCompare]_vars

\* ------------------------------------------------------------------ properties
\* C1: every interaction operation called through the session API completes by
\* returning an InteractionResult and never rejects to its caller; a failure
\* while the page is acquired (launch, context, page, navigation timeout) is a
\* success:false result.
C1_InteractionNeverThrows ==
  (pc = "done" /\ call.via = "api" /\ call.op \in InteractionOps) =>
    /\ call.kind = "result"
    /\ (call.nav.did /\ ~call.nav.ok) => ~call.success

\* C2: no run closes a context or page of a remote browser; closeSession on a
\* remote session only disconnects, and on a local session closes the context
\* (with its page) and then the browser, leaving no local resource.
C2_RemoteOnlyDisconnected ==
  /\ ~remoteClosed
  /\ (pc = "done" /\ call.op = "closeSession" /\ call.preRemote) =>
       call.closed = <<"disconnect">>
  /\ (pc = "done" /\ call.op = "closeSession" /\ ~call.preRemote) =>
       /\ call.closed = (IF call.preState[2] # NoHandle THEN <<"context">> ELSE <<>>)
                        \o (IF call.preState[1] # NoHandle THEN <<"browser">> ELSE <<>>)
       /\ localBrowsers = 0 /\ localContexts = 0 /\ localPages = 0

\* A remote session with a connection held was closed.
C2_Witness ==
  /\ pc = "done" /\ call.op = "closeSession"
  /\ call.preRemote /\ call.prePage.kind = "remote"
  /\ call.closed = <<"disconnect">>
  /\ cdpConns = 0

\* C3: the session manager calls page.goto only for a supplied URL that differs
\* from currentUrl while isRemote is false, and a navigation that succeeded
\* leaves currentUrl at that URL; a click called with the URL the session
\* already tracks does not reload the page, so a click on the button that is
\* still there succeeds and the change the earlier click made is kept.
C3_NavigateOnlyOnChange ==
  /\ ~call.badNav
  /\ (pc \in {"op", "done"} /\ call.nav.did /\ call.nav.ok) => currentUrl = call.nav.url
  /\ (pc = "done" /\ call.op = "click" /\ call.url # NULL /\ call.url = call.preUrl) =>
       /\ ~call.nav.did
       /\ call.target = <<"o", "k">> =>
            /\ call.via = "api" => call.kind = "result" /\ call.success
            /\ pageDom = call.preDom + 1

\* The second of two clicks on the button with the same URL has completed on
\* the page the first one changed.
C3_Witness ==
  /\ pc = "done" /\ call.op = "click" /\ call.target = <<"o", "k">>
  /\ call.url # NULL /\ call.url = call.preUrl
  /\ call.success /\ call.preDom >= 1 /\ pageDom = call.preDom + 1

\* C4: in every reachable state at most one browser (launched or attached), one
\* context and one page are held and not released, and a getPage call made
\* while a page is held returns that page and creates nothing.
C4_AtMostOneLive ==
  /\ localBrowsers + cdpConns <= 1
  /\ localContexts <= 1
  /\ localPages <= 1
  /\ (pc \in {"op", "done"} /\ call.op # "closeSession" /\ call.prePage # NoHandle) =>
       page = call.prePage /\ ~call.created

\* C5: after closeSession returns, the session state is the initial state, the
\* next getPage starts the connect-or-launch protocol anew and the resolver
\* sees no snapshot.
C5_CloseRestoresInitial ==
  (pc = "done" /\ call.op = "closeSession") =>
    /\ browser = NoHandle /\ context = NoHandle /\ page = NoHandle
    /\ currentUrl = NULL /\ lastSnapshot = NoSnapshot /\ ~isRemote
    /\ EntryPc = (IF useCdp THEN "cdp" ELSE "gp_launch")
    /\ ~SnapView.present

\* closeSession has returned for a remote session that had a cached snapshot.
C5_Witness ==
  /\ pc = "done" /\ call.op = "closeSession"
  /\ call.preRemote /\ call.preState[5].present /\ call.preState[4] # NULL
  /\ lastSnapshot = NoSnapshot /\ ~isRemote

\* C6: when the process has exited on the interrupt signal, no locally launched
\* browser is left open and no context or page of a remote browser was closed,
\* wherever the call in flight was suspended.
C6_ExitLeavesNoBrowser ==
  exited => (localBrowsers = 0 /\ ~remoteClosed)

\* C7: a recognised action with a required parameter missing gets the
\* validation response before any browser call (no debug-port connection, no
\* launch, no navigation), with session state and files unchanged.
C7_ValidationBeforeBrowser ==
  (pc = "done" /\ call.via = "tool" /\ call.text = "missing-param") =>
    /\ call.probes = 0
    /\ ~call.created /\ ~call.nav.did
    /\ <<browser, context, page, currentUrl, lastSnapshot, isRemote>> = call.preState
    /\ files = call.preFiles

\* C8: every tool call ends in a text response, never a rejection; an unknown
\* action gets 'Unknown action' with no session operation invoked, and a fault
\* of a session operation becomes an error text.
C8_HandlerNeverRejects ==
  (pc = "done" /\ call.via = "tool") =>
    /\ call.kind = "text"
    /\ call.text # "none"
    /\ call.action = "bogus" =>
         /\ call.text = "unknown-action"
         /\ call.op = "none" /\ ~call.created /\ ~call.nav.did
         /\ <<browser, context, page, currentUrl, lastSnapshot, isRemote>> = call.preState
         /\ files = call.preFiles

\* A navigation timeout inside a tool call came back as the error text.
C8_Witness ==
  /\ pc = "done" /\ call.via = "tool"
  /\ call.nav.did /\ ~call.nav.ok
  /\ call.kind = "text" /\ call.text = "error"

\* C9: the 'no baseline' response is given only while snapshot-before.json is
\* absent, without analyzing, writing a file or touching the session; a
\* completed baseline action leaves the baseline snapshot in place, and it
\* stays, so no later diff gets that response.
C9_NoBaselineResponse ==
  /\ [](/\ (pc = "done" /\ call.text = "no-baseline") =>
             /\ files.baseSnapshot = 0
             /\ call.op = "none" /\ ~call.created /\ ~call.nav.did
             /\ files = call.preFiles
             /\ <<browser, context, page, currentUrl, lastSnapshot, isRemote>> = call.preState
        /\ (pc = "done" /\ call.text = "baseline-saved") => files.baseSnapshot # 0)
  /\ [][/\ files.baseSnapshot # 0 => files'.baseSnapshot # 0
        /\ call'.text = "no-baseline" => (files.baseSnapshot = 0 /\ pass' = pass)]_vars

\* A diff got 'no baseline' although an earlier look had written snapshot.json.
C9_Witness ==
  /\ pc = "done" /\ call.text = "no-baseline"
  /\ files.snapshot # 0 /\ files.baseSnapshot = 0

\* C10: a target that starts with '[', '#' or '.', or contains '=', is returned
\* unchanged by findSelector whatever the cached snapshot holds.
C10_SelectorSyntaxVerbatim ==
  (/\ rDone
   /\ \/ Len(rTarget) > 0 /\ rTarget[1] \in {"[", "#", "."}
      \/ \E i \in 1..Len(rTarget) : rTarget[i] = "=") =>
    rResult = rTarget

\* A selector-syntax target that an action of the cached snapshot also matches
\* was resolved.
C10_Witness ==
  /\ rDone
  /\ \E i \in 1..Len(rTarget) : rTarget[i] = "="
  /\ rSnap.present
  /\ \E i \in 1..Len(rSnap.actions) : ActionMatches(rSnap.actions[i], rTarget)
  /\ rResult = rTarget

\* C11: a target without selector syntax that no action of the cached snapshot
\* matches (or with no snapshot cached) resolves to [data-testid="<target>"]
\* when it is made of word characters and hyphens only, and to text=<target>
\* otherwise; the result is a function of target and snapshot, is always a
\* non-empty query, and the session state is left as it was.
C11_FallbackRules ==
  rDone =>
    /\ Len(rResult) > 0
    /\ browser = NoHandle /\ context = NoHandle /\ page = NoHandle
    /\ currentUrl = NULL /\ lastSnapshot = NoSnapshot /\ ~isRemote
    /\ (/\ ~(Len(rTarget) > 0 /\ rTarget[1] \in {"[", "#", "."})
        /\ \A i \in 1..Len(rTarget) : rTarget[i] # "="
        /\ \/ ~rSnap.present
           \/ \A i \in 1..Len(rSnap.actions) : ~ActionMatches(rSnap.actions[i], rTarget)) =>
         rResult = IF /\ Len(rTarget) > 0
                      /\ \A i \in 1..Len(rTarget) : rTarget[i] \in WordChars \cup {"-"}
                    THEN <<"[", "d", "a", "t", "a", "-", "t", "e", "s", "t", "i", "d", "=", "\"">>
                           \o rTarget \o <<"\"", "]">>
                    ELSE <<"t", "e", "x", "t", "=">> \o rTarget

\* A hyphenated identifier that the actions of a cached snapshot do not match
\* was resolved to the test-id query.
C11_Witness ==
  /\ rDone
  /\ rSnap.present /\ Len(rSnap.actions) > 0
  /\ \A i \in 1..Len(rSnap.actions) : ~ActionMatches(rSnap.actions[i], rTarget)
  /\ Len(rTarget) = 2 /\ rTarget[1] = "-"
  /\ rResult = TestIdSelector(rTarget)

\* C12: in rule 2 an action of the cached snapshot matches a target only when
\* the target is a case-insensitive substring of the action's name or, for a
\* testId-type locator, of the test id embedded in the locator value (not of
\* the selector syntax around it); the first such action's locator value is
\* returned unchanged, and with no such action rule 3 or 4 applies.
C12_MatchOnNameOrTestId ==
  (/\ rDone
   /\ rSnap.present
   /\ ~(Len(rTarget) > 0 /\ rTarget[1] \in {"[", "#", "."})
   /\ \A i \in 1..Len(rTarget) : rTarget[i] # "=") =>
    LET embedded(a) == SubSeq(a.locator.value, 15, Len(a.locator.value) - 2)
        matches(a) == \/ Includes(Lower(a.name), Lower(rTarget))
                      \/ /\ a.locator.type = "testId"
                         /\ Includes(Lower(embedded(a)), Lower(rTarget))
        hits == {i \in 1..Len(rSnap.actions) : matches(rSnap.actions[i])}
    IN IF hits # {}
         THEN rResult = rSnap.actions[CHOOSE i \in hits : \A j \in hits : i <= j].locator.value
         ELSE rResult \in {TestIdSelector(rTarget), TextSelector(rTarget)}

\* C13: test ids come first: a target equal to the test id of an action of the
\* cached snapshot resolves to [data-testid="<target>"], also when an action
\* listed earlier matches the target by its accessible name.
C13_TestIdFirst ==
  (/\ rDone
   /\ rSnap.present
   /\ Len(rTarget) > 0
   /\ \A i \in 1..Len(rTarget) : rTarget[i] \in WordChars \cup {"-"}
   /\ \E i \in 1..Len(rSnap.actions) :
        /\ rSnap.actions[i].locator.type = "testId"
        /\ rSnap.actions[i].locator.value = TestIdSelector(rTarget)) =>
    rResult = TestIdSelector(rTarget)

\* C14: a click whose resolved query finds no live element returns a result
\* with success false whose message quotes the original target and the fault;
\* nothing is thrown, the step leaves browser, context, page, currentUrl and
\* lastSnapshot as they were, and an interaction that starts with a page held
\* runs on that page.
C14_ClickMissReported ==
  /\ [](/\ (pc = "done" /\ call.via = "api" /\ call.op = "click"
             /\ call.kind # "threw" /\ ~call.success) =>
             /\ call.kind = "result"
             /\ call.msgTarget = call.target /\ call.msgFault
             /\ page # NoHandle /\ browser # NoHandle /\ context # NoHandle
        /\ (pc \in {"op", "done"} /\ call.op \in InteractionOps
             /\ call.prePage # NoHandle) => page = call.prePage)
  /\ [][(pc = "op" /\ call.op = "click" /\ pc' = "done" /\ ~call'.success) =>
          /\ call'.kind = "result"
          /\ UNCHANGED <<browser, context, page, currentUrl, lastSnapshot, isRemote>>
          /\ UNCHANGED <<localBrowsers, localContexts, localPages, cdpConns>>]_vars

\* A click on a test id no element has came back as a failure, with a snapshot
\* cached and the page still held.
C14_Witness ==
  /\ pc = "done" /\ call.op = "click" /\ call.kind = "result" /\ ~call.success
  /\ call.target = <<"n", "o">> /\ call.selector = TestIdSelector(<<"n", "o">>)
  /\ call.msgTarget = <<"n", "o">> /\ call.msgFault
  /\ page = call.prePage /\ page # NoHandle /\ lastSnapshot.present

\* C15: comparing a snapshot with itself gives every change list empty, and
\* when the two screenshots are the same image the pixel difference is 0% and
\* not significant.
C15_SelfCompareEmpty ==
  (cmpDone /\ cmpBefore = cmpAfter) =>
    /\ cmpResult.themeChanges = <<>>
    /\ cmpResult.cssVariableChanges = <<>>
    /\ cmpResult.sectionsAdded = <<>>
    /\ cmpResult.sectionsRemoved = <<>>
    /\ cmpResult.actionsAdded = <<>>
    /\ cmpResult.actionsRemoved = <<>>
    /\ cmpResult.layoutChanges = <<>>
    /\ (cmpImages.paths /\ cmpImages.before.readable /\ cmpImages.before = cmpImages.after) =>
         /\ cmpResult.imageDiff.present
         /\ cmpResult.imageDiff.diffPercent = 0
         /\ ~cmpResult.imageDiff.hasSignificantChange

\* C16: for every custom property in the union of both snapshots' keys the diff
\* holds exactly one entry if the two values differ and none if they are equal;
\* an entry's before is "(not set)" exactly when the first snapshot lacks the
\* key (and the first snapshot's value otherwise), its after is "(removed)"
\* exactly when the second snapshot lacks it (and the second's value otherwise).
C16_CssVariableDiff ==
  cmpDone =>
    \A k \in {CssKeys[i] : i \in 1..Len(CssKeys)} :
      LET b == cmpBefore.theme.cssVariables[k]
          a == cmpAfter.theme.cssVariables[k]
          entries == {i \in 1..Len(cmpResult.cssVariableChanges) :
                        cmpResult.cssVariableChanges[i].property = k}
      IN /\ Cardinality(entries) = (IF b # a THEN 1 ELSE 0)
         /\ \A i \in entries :
              /\ cmpResult.cssVariableChanges[i].before
                   = (IF b = Undefined THEN "(not set)" ELSE b)
              /\ cmpResult.cssVariableChanges[i].after
                   = (IF a = Undefined THEN "(removed)" ELSE a)

\* C17: two readable screenshots of different pixel dimensions give a pixel
\* diff of 100% with no diff image path, marked significant, with no pixel
\* count and no diff image written, and the comparison still returns its
\* result with that difference in the summary.
C17_SizeMismatchMaximal ==
  (/\ cmpDone
   /\ cmpImages.paths
   /\ cmpImages.before.readable /\ cmpImages.after.readable
   /\ \/ cmpImages.before.width # cmpImages.after.width
      \/ cmpImages.before.height # cmpImages.after.height) =>
    /\ cmpResult.imageDiff.present
    /\ cmpResult.imageDiff.diffPercent = 10000
    /\ cmpResult.imageDiff.diffImagePath = NULL
    /\ cmpResult.imageDiff.hasSignificantChange
    /\ cmpResult.imageDiff.diffPixels = -1
    /\ cmpResult.written = {}
    /\ ~cmpResult.summary.none
    /\ cmpResult.summary.changes[1] = [kind |-> "visual difference", n |-> 10000, m |-> 0]

C17_Witness ==
  /\ cmpDone
  /\ cmpImages.paths
  /\ cmpImages.before.readable /\ cmpImages.after.readable
  /\ cmpImages.before.width = 199 /\ cmpImages.after.width = 1280
  /\ cmpBefore = cmpAfter
  /\ cmpResult.imageDiff.diffPercent = 10000
  /\ Len(cmpResult.summary.changes) = 1

\* C18: for two screenshots of one size the reported percentage is
\* differing/total*100 rounded to two decimals, and the result is marked
\* significant exactly when the reported percentage is above 0.5.
C18_SignificantIffReportedAboveHalf ==
  (/\ cmpDone
   /\ cmpResult.imageDiff.present
   /\ cmpImages.before.width = cmpImages.after.width
   /\ cmpImages.before.height = cmpImages.after.height) =>
    LET total == cmpImages.before.width * cmpImages.before.height
    IN /\ cmpResult.imageDiff.diffPercent
            = (cmpImages.numDiffPixels * 20000 + total) \div (2 * total)
       /\ cmpResult.imageDiff.hasSignificantChange
            <=> cmpResult.imageDiff.diffPercent > 50

\* C19: the summary's fragments come in the order significant pixel
\* difference, theme changes, CSS variable changes, sections, layout changes,
\* each present exactly when its list or flag is non-empty; when none of them
\* is present and the screenshots differ in at least one pixel the summary is
\* the pixel-difference fragment; the summary says no changes only otherwise.
C19_SummaryOrderAndFallback ==
  cmpDone =>
    LET r == cmpResult
        fired ==
          (IF r.imageDiff.present /\ r.imageDiff.hasSignificantChange
             THEN <<"visual difference">> ELSE <<>>)
          \o (IF r.themeChanges # <<>> THEN <<"theme changes">> ELSE <<>>)
          \o (IF r.cssVariableChanges # <<>> THEN <<"CSS variable changes">> ELSE <<>>)
          \o (IF r.sectionsAdded # <<>> \/ r.sectionsRemoved # <<>>
                THEN <<"sections">> ELSE <<>>)
          \o (IF r.layoutChanges # <<>> THEN <<"layout changes">> ELSE <<>>)
        kinds == [i \in 1..Len(r.summary.changes) |-> r.summary.changes[i].kind]
        pixelsDiffer == r.imageDiff.present /\ r.imageDiff.diffPixels # 0
    IN /\ fired # <<>> => kinds = fired
       /\ (fired = <<>> /\ pixelsDiffer) => kinds = <<"pixel difference">>
       /\ r.summary.none <=> (fired = <<>> /\ ~pixelsDiffer)

C21_AttachChoice ==
  [][(pc = "cdp" /\ pc' = "op" /\ call.url # NULL) =>
       LET usable(p) == {i \in 1..Len(remote[p].tabs) :
                           remote[p].tabs[i] \notin {Blank, "chrome://newtab", ""}}
           ports == {k \in 1..Len(CDP_PORTS) :
                       remote[CDP_PORTS[k]].up /\ usable(CDP_PORTS[k]) # {}}
           port == CDP_PORTS[CHOOSE k \in ports : \A j \in ports : k <= j]
           least(S) == CHOOSE i \in S : \A j \in S : i <= j
           exact == {i \in usable(port) : remote[port].tabs[i] = call.url}
           host == {i \in usable(port) : Host(remote[port].tabs[i]) = Host(call.url)}
       IN /\ ports # {}
          /\ page'.kind = "remote" /\ page'.port = port
          /\ page'.idx = (IF exact # {} THEN least(exact)
                          ELSE IF host # {} THEN least(host)
                          ELSE least(usable(port)))
          /\ (exact = {} /\ host = {}) => remote'[port].tabs[page'.idx] = call.url
          /\ (exact # {} \/ host # {}) => remote' = remote]_vars

\* C22: attaching is tried only with USE_CDP=1 and no browser held; when no
\* port gave a page the call goes on, without an error and with the session
\* state untouched, to launch a browser of its own, and getPage then returns
\* the local page, showing the requested URL, with isRemote false.
C22_SilentFallback ==
  /\ [](pc = "cdp" => (useCdp /\ browser = NoHandle /\ call.kind = "pending"))
  /\ [][pc = "cdp" =>
          /\ pc' \in {"cdp", "gp_launch", "op"}
          /\ pc' = "gp_launch" =>
               /\ call'.portIdx = Len(CDP_PORTS)
               /\ call'.kind = "pending"
               /\ UNCHANGED <<browser, context, page, currentUrl, lastSnapshot, isRemote>>]_vars
  /\ []((pc = "op" /\ call.portIdx > 0 /\ browser.kind # "remote") =>
          /\ browser = LocalHandle /\ context = LocalHandle /\ page = LocalHandle
          /\ ~isRemote
          /\ call.kind = "pending"
          /\ call.url # NULL => (localUrl = call.url /\ currentUrl = call.url))

\* With USE_CDP=1 and nothing listening on either port, a call reached its
\* operation on a launched browser after two probes.
C22_Witness ==
  /\ pc = "op" /\ useCdp
  /\ \A p \in CdpPortSet : ~remote[p].up
  /\ call.portIdx = 2 /\ call.probes = 2
  /\ browser = LocalHandle /\ ~isRemote /\ call.url = UA1 /\ localUrl = UA1

\* C23: whenever getPage has returned a page to the operation of a call, that
\* page, created locally or attached from a debugging browser, carries the
\* request filter exactly once, and no page ever carries it twice.
C23_FilterExactlyOnce ==
  /\ pageRoutes <= 1
  /\ (pc = "op" /\ page # NoHandle) => pageRoutes = 1

\* C24 as stated: when an interaction fails inside getPage (browser launch,
\* context or page creation, navigation), the whole session state is what it
\* was when the call started; and no call creates a second browser, context
\* or page.
C24_FailedCallLeavesState ==
  /\ (pc = "done" /\ call.kind = "threw" /\ call.op \in InteractionOps) =>
       <<browser, context, page, currentUrl, lastSnapshot, isRemote>> = call.preState
  /\ localBrowsers <= 1 /\ localContexts <= 1 /\ localPages <= 1

\* C24: when an interaction fails inside getPage, currentUrl, lastSnapshot and
\* isRemote are what they were when the call started, and browser, context
\* and page are either what they were or the ones the call created from
\* nothing before it failed; a navigation that failed was to a URL other than
\* the tracked one, so the same call made again navigates again; and no call
\* creates a second browser, context or page.
C24_FailedCallKeepsTracking ==
  /\ (pc = "done" /\ call.kind = "threw" /\ call.op \in InteractionOps) =>
       /\ currentUrl = call.preState[4]
       /\ lastSnapshot = call.preState[5]
       /\ isRemote = call.preState[6]
       /\ browser = call.preState[1] \/ (call.preState[1] = NoHandle /\ browser = LocalHandle)
       /\ context = call.preState[2] \/ (call.preState[2] = NoHandle /\ context = LocalHandle)
       /\ page = call.preState[3] \/ (call.preState[3] = NoHandle /\ page = LocalHandle)
       /\ call.nav.did => (call.url # NULL /\ currentUrl # call.url)
  /\ localBrowsers <= 1 /\ localContexts <= 1 /\ localPages <= 1

\* The first call of a session timed out in its navigation: the browser,
\* context and page it created are held, and no URL is tracked.
C24_Witness ==
  /\ pc = "done" /\ call.kind = "threw" /\ call.op = "click"
  /\ call.nav.did /\ ~call.nav.ok
  /\ call.preState[1] = NoHandle
  /\ browser = LocalHandle /\ context = LocalHandle /\ page = LocalHandle
  /\ currentUrl = NULL /\ localBrowsers = 1

\* C25: isVisible asks for the enabled state only when the visibility check
\* said visible, and whatever the visibility check does (element missing,
\* timeout, fault) the call returns success: true, with visible false when the
\* element was not seen.
C25_VisibilityNeverAnError ==
  (pc = "done" /\ call.op = "isVisible" /\ call.kind = "result") =>
    /\ call.enabledChecked => call.visible
    /\ call.success

\* C26: in a locally launched session a tracked URL is the URL the held page
\* shows, and an interaction called with a URL reaches its operation on a
\* page showing that URL.
C26_TrackedUrlIsPageUrl ==
  (page = LocalHandle /\ ~isRemote) =>
    /\ (pc \in {"idle", "op", "done"} /\ currentUrl # NULL) => localUrl = currentUrl
    /\ (pc = "op" /\ call.op \in InteractionOps /\ call.url # NULL) => localUrl = call.url

\* C27: whenever the session holds a cached snapshot and tracks a URL, the
\* snapshot was taken of that URL.
C27_SnapshotOfTrackedUrl ==
  (lastSnapshot.present /\ currentUrl # NULL /\ pc \in {"idle", "op", "done"}) =>
    lastSnapshot.url = currentUrl

\* C28: the only debug connection open is the one the session holds as its
\* browser: none is open while the session holds no remote browser, and
\* exactly one while it does.
C28_NoStrandedConnection ==
  cdpConns = (IF browser.kind = "remote" THEN 1 ELSE 0)

\* C29: when the baseline action has completed, a baseline screenshot that
\* exists was captured by the analysis pass that wrote the baseline snapshot.
C29_BaselineFromOnePass ==
  (pc = "done" /\ call.text = "baseline-saved") =>
    /\ files.baseSnapshot # 0
    /\ files.baseScreenshot \in {0, files.baseSnapshot}

\* C30: the summary is 'No visual changes detected' only when all seven
\* change lists of the result are empty and the screenshots, if compared,
\* differ in no pixel.
C30_NoChangesMeansNoChanges ==
  (cmpDone /\ cmpResult.summary.none) =>
    /\ cmpResult.themeChanges = <<>>
    /\ cmpResult.cssVariableChanges = <<>>
    /\ cmpResult.sectionsAdded = <<>>
    /\ cmpResult.sectionsRemoved = <<>>
    /\ cmpResult.actionsAdded = <<>>
    /\ cmpResult.actionsRemoved = <<>>
    /\ cmpResult.layoutChanges = <<>>
    /\ cmpResult.imageDiff.present => cmpResult.imageDiff.diffPixels = 0

====
